---- MODULE Spec2Model ----
(***************************************************************************)
(* Model of 0x02-redis_basic: exercise.py (Cache, count_calls,             *)
(* call_history, replay) and web.py (count_access, cache_result,           *)
(* get_page).  Both modules talk to the same default Redis database; the   *)
(* database is the variable db, the server clock is now.  Every Redis      *)
(* command is one atomic step; a Python call that issues several commands  *)
(* is a sequence of steps of one thread, so calls of different threads     *)
(* interleave between commands.                                            *)
(*                                                                         *)
(* Bytes are sequences of byte codes (48..57 are the digits, 97 is "a").   *)
(* A Python value is a record [t, v]: t is its type, v its payload.        *)
(***************************************************************************)
EXTENDS Integers, Sequences, FiniteSets, TLC

VARIABLES db, now, pc, loc, nextId, ops, epoch,
          started, finished, storeOk, storeFail, fetches, stored,
          lastAct, chain, replayed

vars == <<db, now, pc, loc, nextId, ops, epoch,
          started, finished, storeOk, storeFail, fetches, stored,
          lastAct, chain, replayed>>

(* ---------------------------- bounds ---------------------------------- *)
\* operations (calls and constructions) begun in one behaviour
MaxOps == 3
\* last clock value explored
MaxTime == 10
\* seconds between two observations of the clock
ClockStep == 5

\* expiration passed to cache_result by get_page (seconds)
EXPIRATION == 10

Threads == {1, 2}
URLs == {"u1", "u2"}
UUIDs == <<"k1", "k2", "k3", "k4", "k5">>

NoExp == -1

\* the text of the i-th uuid4 key: "k" and a digit
KeyText(k) == <<107, 48 + (CHOOSE i \in 1..Len(UUIDs) : UUIDs[i] = k)>>

(* ------------------------- Python values ------------------------------ *)
PyStr(s) == [t |-> "str", v |-> s]
PyBytes(b) == [t |-> "bytes", v |-> b]
PyInt(n) == [t |-> "int", v |-> <<n>>]
None == [t |-> "none", v |-> <<>>]
\* a value of a type the Redis client cannot encode (a list)
PyList == [t |-> "list", v |-> <<>>]

\* arguments tried for Cache.store
DataValues == {PyStr(<<>>), PyStr(<<97>>), PyInt(12), PyList}
\* bodies the HTTP server may answer with
Contents == {PyStr(<<>>), PyStr(<<104>>), PyStr(<<105>>)}
\* conversion functions tried for Cache.get: none, get_str's, get_int's
Fns == {"None", "decode", "int"}

RECURSIVE Format(_)
\* repr(n).encode() of a natural number: its decimal digits
Format(n) == IF n < 10 THEN <<48 + n>> ELSE Format(n \div 10) \o <<48 + (n % 10)>>

IsDigits(b) == b # <<>> /\ \A i \in 1..Len(b) : b[i] \in 48..57

RECURSIVE Parse(_)
\* value of a non-empty digit string
Parse(b) == IF Len(b) = 1 THEN b[1] - 48
            ELSE 10 * Parse(SubSeq(b, 1, Len(b) - 1)) + (b[Len(b)] - 48)

\* the client's encoder: the types it accepts
Encodable(x) == x.t \in {"str", "bytes", "int"}
\* the client's encoder: the bytes sent for an accepted value
Encode(x) == IF x.t = "int" THEN Format(x.v[1]) ELSE x.v

\* bytes.decode("utf-8") on ASCII bytes
Decode(x) == PyStr(x.v)

\* repr(x)
Repr(x) == CASE x.t = "str" -> <<39>> \o x.v \o <<39>>
             [] x.t = "bytes" -> <<98, 39>> \o x.v \o <<39>>
             [] x.t = "int" -> Format(x.v[1])
             [] OTHER -> <<91, 93>>

\* str(args) for args == (x,)
StrArgs(x) == PyStr(<<40>> \o Repr(x) \o <<44, 41>>)

\* truth value of bytes or None
Truthy(x) == x.t # "none" /\ x.v # <<>>

(* --------------------------- Redis keys ------------------------------- *)
QUALNAME == "Cache.store"
InputKey == QUALNAME \o ":inputs"
\* the outputs pushed to the list of the inputs
OutputKeyTypo == QUALNAME \o ":inputs"
OutputKey == QUALNAME \o ":outputs"
\* the counter key built without the url: one counter for every page
CountKeyNoUrl(url) == "count:"
CountKey(url) == "count:" \o url
\* the cache key built with the prefix of the counter
CacheKeyAsCount(url) == "count:" \o url
\* the cache key built without the url: one entry for every page
CacheKeyShared(url) == "cache:"
CacheKey(url) == "cache:" \o url

(* ------------------------- Redis commands ----------------------------- *)
Put(d, k, e) == [x \in DOMAIN d \cup {k} |-> IF x = k THEN e ELSE d[x]]

\* key k exists at time tm (an expired key does not)
Live(d, k, tm) == k \in DOMAIN d /\ (d[k].exp = NoExp \/ tm < d[k].exp)

RedisGet(d, k, tm) == IF Live(d, k, tm) THEN PyBytes(d[k].val) ELSE None

RedisSet(d, k, b) == Put(d, k, [kind |-> "string", val |-> b, exp |-> NoExp])

RedisSetex(d, k, ttl, b, tm) ==
    Put(d, k, [kind |-> "string", val |-> b, exp |-> tm + ttl])

\* a counter written with SET key 1 in place of INCR
RedisIncrLost(d, k, tm) ==
    Put(d, k, [kind |-> "string", val |-> Format(1), exp |-> NoExp])

\* INCR: a missing key counts from 0; a value that is no integer is refused
RedisIncr(d, k, tm) ==
    IF Live(d, k, tm)
    THEN IF IsDigits(d[k].val)
         THEN Put(d, k, [d[k] EXCEPT !.val = Format(Parse(d[k].val) + 1)])
         ELSE d
    ELSE Put(d, k, [kind |-> "string", val |-> Format(1), exp |-> NoExp])

RedisRpush(d, k, b, tm) ==
    IF Live(d, k, tm)
    THEN Put(d, k, [d[k] EXCEPT !.val = Append(d[k].val, b)])
    ELSE Put(d, k, [kind |-> "list", val |-> <<b>>, exp |-> NoExp])

RedisLrange(d, k, tm) == IF Live(d, k, tm) THEN d[k].val ELSE <<>>

FlushDb == [x \in {} |-> None]

(* --------------------------- bookkeeping ------------------------------ *)
OpNames == {QUALNAME} \cup {CountKey(u) : u \in URLs}

NoLoc == [data |-> None, key |-> "", url |-> "", content |-> None,
          failed |-> FALSE, fn |-> "", wepoch |-> 0,
          count |-> 0, inputs |-> <<>>, outputs |-> <<>>, nfetch |-> 0,
          cached |-> None]

NoRet == [name |-> "", t |-> 0, op |-> "", arg |-> "", val |-> None, exc |-> "", count |-> 0,
          lines |-> <<>>, ins |-> <<>>, outs |-> <<>>, hit |-> FALSE,
          failed |-> FALSE, nfetch |-> 0, fn |-> ""]

Returned(op, arg, val) == [NoRet EXCEPT !.op = op, !.arg = arg, !.val = val]
Raised(op, arg, exc) == [NoRet EXCEPT !.op = op, !.arg = arg, !.exc = exc]

NoChain == [phase |-> 0, url |-> "", t |-> 0, count0 |-> 0, fetch0 |-> 0,
            miss1 |-> FALSE, val1 |-> None, val2 |-> None, dcount |-> 0,
            dfetch |-> 0]

\* what the last replay printed, while no other operation has run since;
\* clean holds the threads whose replay under way has seen none either
NoReplay == [done |-> FALSE, again |-> FALSE, count |-> 0, lines |-> <<>>,
             clean |-> {}]

\* the number a counter key reads as (int(count) if count else 0)
CountOf(d, k, tm) ==
    LET c == RedisGet(d, k, tm) IN
    IF Truthy(c) /\ IsDigits(c.v) THEN Parse(c.v) ELSE 0

Init ==
    /\ db = FlushDb
    /\ now = 0
    /\ pc = [t \in Threads |-> "idle"]
    /\ loc = [t \in Threads |-> NoLoc]
    /\ nextId = 1
    /\ ops = 0
    /\ epoch = 0
    /\ started = [o \in OpNames |-> 0]
    /\ finished = [o \in OpNames |-> 0]
    /\ storeOk = 0
    /\ storeFail = 0
    /\ fetches = [u \in URLs |-> 0]
    /\ stored = [x \in {} |-> None]
    /\ lastAct = [NoRet EXCEPT !.name = "Init"]
    /\ chain = NoChain
    /\ replayed = NoReplay

\* lastAct is the step just taken and, when it ends a call, the call's result
Done(name, t, r) == lastAct' = [r EXCEPT !.name = name, !.t = t]
Act(name, t) == Done(name, t, NoRet)

\* an action that is no part of a get_page call ends any get_page pair
BreakChain == chain' = NoChain

\* an action that is no part of replay ends any run of replay calls
ForgetReplay == replayed' = NoReplay

(* ------------------------- exercise.py -------------------------------- *)
\* Cache.__init__ without its flushdb call
CacheInitNoFlush(t) ==
    /\ pc[t] = "idle" /\ ops < MaxOps
    /\ epoch' = epoch + 1
    /\ ops' = ops + 1
    /\ Act("CacheInit", t) /\ BreakChain
    /\ ForgetReplay
    /\ UNCHANGED <<db, now, pc, loc, nextId, started, finished, storeOk,
                   storeFail, fetches, stored>>

\* Cache.__init__: connect and flush the database
CacheInit(t) ==
    /\ pc[t] = "idle" /\ ops < MaxOps
    /\ db' = FlushDb
    /\ epoch' = epoch + 1
    /\ ops' = ops + 1
    /\ Act("CacheInit", t) /\ BreakChain
    /\ ForgetReplay
    /\ UNCHANGED <<now, pc, loc, nextId, started, finished, storeOk,
                   storeFail, fetches, stored>>

\* count_calls.wrapper: incr, then the wrapped call
StoreIncr(t, data) ==
    /\ pc[t] = "idle" /\ ops < MaxOps
    /\ db' = RedisIncr(db, QUALNAME, now)
    /\ pc' = [pc EXCEPT ![t] = "s_in"]
    /\ loc' = [loc EXCEPT ![t] = [NoLoc EXCEPT !.data = data]]
    /\ started' = [started EXCEPT ![QUALNAME] = @ + 1]
    /\ ops' = ops + 1
    /\ Act("StoreIncr", t) /\ BreakChain
    /\ ForgetReplay
    /\ UNCHANGED <<now, nextId, epoch, finished, storeOk, storeFail,
                   fetches, stored>>

\* call_history.wrapper: rpush the input, then the wrapped call
StoreRpushIn(t) ==
    /\ pc[t] = "s_in"
    /\ db' = RedisRpush(db, InputKey, StrArgs(loc[t].data).v, now)
    /\ pc' = [pc EXCEPT ![t] = "s_set"]
    /\ Act("StoreRpushIn", t) /\ BreakChain
    /\ ForgetReplay
    /\ UNCHANGED <<now, loc, nextId, ops, epoch, started, finished,
                   storeOk, storeFail, fetches, stored>>

\* Cache.store: a fresh uuid4 key, set; the client raises DataError for a
\* value it cannot encode, and the error leaves both wrappers
StoreSet(t) ==
    /\ pc[t] = "s_set"
    /\ nextId <= Len(UUIDs)
    /\ LET key == UUIDs[nextId] IN
       IF Encodable(loc[t].data)
       THEN /\ db' = RedisSet(db, key, Encode(loc[t].data))
            /\ pc' = [pc EXCEPT ![t] = "s_out"]
            /\ loc' = [loc EXCEPT ![t].key = key, ![t].wepoch = epoch]
            /\ stored' = Put(stored, key, [data |-> loc[t].data,
                                           epoch |-> epoch,
                                           returned |-> FALSE])
            /\ Act("StoreSet", t)
            /\ UNCHANGED <<finished, storeFail>>
       ELSE /\ pc' = [pc EXCEPT ![t] = "idle"]
            /\ loc' = [loc EXCEPT ![t] = NoLoc]
            /\ Done("StoreSet", t, Raised("store", "", "DataError"))
            /\ finished' = [finished EXCEPT ![QUALNAME] = @ + 1]
            /\ storeFail' = storeFail + 1
            /\ UNCHANGED <<db, stored>>
    /\ nextId' = nextId + 1
    /\ BreakChain
    /\ ForgetReplay
    /\ UNCHANGED <<now, ops, epoch, started, storeOk, fetches>>

\* call_history.wrapper: rpush the output and return it
StoreRpushOut(t) ==
    /\ pc[t] = "s_out"
    /\ LET output == PyStr(KeyText(loc[t].key)) IN
       /\ db' = RedisRpush(db, OutputKey, Encode(output), now)
       /\ Done("StoreRpushOut", t, Returned("store", loc[t].key, output))
    /\ pc' = [pc EXCEPT ![t] = "idle"]
    /\ stored' = [stored EXCEPT ![loc[t].key].returned = TRUE]
    /\ loc' = [loc EXCEPT ![t] = NoLoc]
    /\ finished' = [finished EXCEPT ![QUALNAME] = @ + 1]
    /\ storeOk' = storeOk + 1
    /\ BreakChain
    /\ ForgetReplay
    /\ UNCHANGED <<now, nextId, ops, epoch, started, storeFail, fetches>>

\* the conversion Cache.get applies: none, d.decode("utf-8"), or int(d)
ApplyFn(fn, data) ==
    CASE fn = "decode" -> [val |-> Decode(data), exc |-> ""]
      [] fn = "int" -> IF IsDigits(data.v)
                       THEN [val |-> PyInt(Parse(data.v)), exc |-> ""]
                       ELSE [val |-> None, exc |-> "ValueError"]
      [] OTHER -> [val |-> data, exc |-> ""]

\* Cache.get testing the truth of data where the code tests for None
GetTruthy(d, key, fn, tm) ==
    LET data == RedisGet(d, key, tm) IN
    IF Truthy(data) /\ fn # "None" THEN ApplyFn(fn, data)
    ELSE [val |-> data, exc |-> ""]

\* Cache.get as a function of the database
Get(d, key, fn, tm) ==
    LET data == RedisGet(d, key, tm) IN
    IF data # None /\ fn # "None" THEN ApplyFn(fn, data)
    ELSE [val |-> data, exc |-> ""]

\* Cache.get (get_str and get_int are Cache.get with fn given)
CacheGet(t, key, fn) ==
    /\ pc[t] = "idle" /\ ops < MaxOps
    /\ LET r == Get(db, key, fn, now) IN
       Done("CacheGet", t, [NoRet EXCEPT !.op = "get", !.arg = key, !.fn = fn,
                                         !.val = r.val, !.exc = r.exc])
    /\ ops' = ops + 1
    /\ BreakChain
    /\ ForgetReplay
    /\ UNCHANGED <<db, now, pc, loc, nextId, epoch, started, finished,
                   storeOk, storeFail, fetches, stored>>

RECURSIVE ZipLongest(_, _)
\* itertools.zip_longest in place of zip: the shorter list padded
ZipLongest(a, b) ==
    IF a = <<>> /\ b = <<>> THEN <<>>
    ELSE <<<<IF a = <<>> THEN <<>> ELSE Head(a),
             IF b = <<>> THEN <<>> ELSE Head(b)>>>>
         \o ZipLongest(IF a = <<>> THEN a ELSE Tail(a),
                       IF b = <<>> THEN b ELSE Tail(b))

RECURSIVE Zip(_, _)
\* zip(inputs, outputs): pairs until either list is exhausted
Zip(a, b) == IF a = <<>> \/ b = <<>> THEN <<>>
             ELSE <<<<Head(a), Head(b)>>>> \o Zip(Tail(a), Tail(b))

\* the lines replay prints: both members of each pair decoded
ReplayLines(inputs, outputs) ==
    LET z == Zip(inputs, outputs) IN
    [i \in 1..Len(z) |-> <<Decode(PyBytes(z[i][1])), Decode(PyBytes(z[i][2]))>>]

\* replay reading the counter with INCR, which returns the raised value
ReplayCountIncr(t) ==
    /\ pc[t] = "idle" /\ ops < MaxOps
    /\ db' = RedisIncr(db, QUALNAME, now)
    /\ loc' = [loc EXCEPT ![t] = [NoLoc EXCEPT !.count = CountOf(db', QUALNAME, now)]]
    /\ pc' = [pc EXCEPT ![t] = "r_in"]
    /\ ops' = ops + 1
    /\ Act("ReplayCount", t) /\ BreakChain
    /\ replayed' = [replayed EXCEPT !.clean = @ \cup {t}]
    /\ UNCHANGED <<now, nextId, epoch, started, finished, storeOk,
                   storeFail, fetches, stored>>

\* replay: read the counter
ReplayCount(t) ==
    /\ pc[t] = "idle" /\ ops < MaxOps
    /\ loc' = [loc EXCEPT ![t] = [NoLoc EXCEPT !.count = CountOf(db, QUALNAME, now)]]
    /\ pc' = [pc EXCEPT ![t] = "r_in"]
    /\ ops' = ops + 1
    /\ Act("ReplayCount", t) /\ BreakChain
    /\ replayed' = [replayed EXCEPT !.clean = @ \cup {t}]
    /\ UNCHANGED <<db, now, nextId, epoch, started, finished, storeOk,
                   storeFail, fetches, stored>>

\* replay: lrange of the inputs
ReplayInputs(t) ==
    /\ pc[t] = "r_in"
    /\ loc' = [loc EXCEPT ![t].inputs = RedisLrange(db, InputKey, now)]
    /\ pc' = [pc EXCEPT ![t] = "r_out"]
    /\ Act("ReplayInputs", t) /\ BreakChain
    /\ UNCHANGED replayed
    /\ UNCHANGED <<db, now, nextId, ops, epoch, started, finished,
                   storeOk, storeFail, fetches, stored>>

\* replay: lrange of the outputs, then the printing
ReplayOutputs(t) ==
    /\ pc[t] = "r_out"
    /\ LET outputs == RedisLrange(db, OutputKey, now) IN
       Done("ReplayOutputs", t,
            [NoRet EXCEPT !.op = "replay", !.count = loc[t].count,
                          !.lines = ReplayLines(loc[t].inputs, outputs),
                          !.ins = loc[t].inputs, !.outs = outputs])
    /\ pc' = [pc EXCEPT ![t] = "idle"]
    /\ loc' = [loc EXCEPT ![t] = NoLoc]
    /\ BreakChain
    /\ replayed' = IF t \in replayed.clean
                   THEN [done |-> TRUE, again |-> replayed.done,
                         count |-> lastAct'.count, lines |-> lastAct'.lines,
                         clean |-> replayed.clean \ {t}]
                   ELSE NoReplay
    /\ UNCHANGED <<db, now, nextId, ops, epoch, started, finished, storeOk,
                   storeFail, fetches, stored>>

(* ----------------------------- web.py --------------------------------- *)
\* what the server does with one request: a body, or a failure
RequestException == [t |-> "exc", v |-> <<>>]
Outcomes == Contents \cup {RequestException}

\* get_page without its except clause: the failure leaves the function
GetPageBodyNoCatch(outcome) == outcome

\* the body of get_page: response.text, or "" when the request failed
GetPageBody(outcome) == IF outcome = RequestException THEN PyStr(<<>>) ELSE outcome

\* cache_result.wrapper: whether the cached bytes are served
IsHit(cached) == Truthy(cached)

\* a step of thread t inside its get_page call keeps the pair it belongs to
KeepChain(t) ==
    chain' = IF chain.t = t /\ chain.phase \in {1, 3} THEN chain ELSE NoChain

\* thread t returns val from get_page(url): first or second call of a pair
EndChain(t, url, val, d, f) ==
    chain' = CASE chain.t = t /\ chain.phase = 1 ->
                    [chain EXCEPT !.phase = 2, !.val1 = val,
                                  !.miss1 = (f[url] > chain.fetch0)]
               [] chain.t = t /\ chain.phase = 3 ->
                    [chain EXCEPT !.phase = 4, !.val2 = val,
                        !.dcount = CountOf(d, CountKey(url), now) - chain.count0,
                        !.dfetch = f[url] - chain.fetch0]
               [] OTHER -> NoChain

\* count_access.wrapper: incr count:<url>, then the wrapped call
PageIncr(t, url) ==
    /\ pc[t] = "idle" /\ ops < MaxOps
    /\ db' = RedisIncr(db, CountKey(url), now)
    /\ pc' = [pc EXCEPT ![t] = "g_get"]
    /\ loc' = [loc EXCEPT ![t] = [NoLoc EXCEPT !.url = url]]
    /\ started' = [started EXCEPT ![CountKey(url)] = @ + 1]
    /\ ops' = ops + 1
    /\ chain' = IF chain.phase = 2 /\ chain.url = url
                THEN [chain EXCEPT !.phase = 3, !.t = t]
                ELSE [NoChain EXCEPT !.phase = 1, !.url = url, !.t = t,
                          !.count0 = CountOf(db, CountKey(url), now),
                          !.fetch0 = fetches[url]]
    /\ Act("PageIncr", t)
    /\ ForgetReplay
    /\ UNCHANGED <<now, nextId, epoch, finished, storeOk, storeFail,
                   fetches, stored>>

\* cache_result.wrapper: get cache:<url>; serve it, or go on to the fetch
PageGet(t) ==
    /\ pc[t] = "g_get"
    /\ LET url == loc[t].url
           cached_content == RedisGet(db, CacheKey(url), now) IN
       IF IsHit(cached_content)
       THEN /\ pc' = [pc EXCEPT ![t] = "idle"]
            /\ Done("PageGet", t,
                    [NoRet EXCEPT !.op = "get_page", !.arg = url,
                                  !.val = Decode(cached_content),
                                  !.hit = TRUE])
            /\ loc' = [loc EXCEPT ![t] = NoLoc]
            /\ finished' = [finished EXCEPT ![CountKey(url)] = @ + 1]
            /\ EndChain(t, url, Decode(cached_content), db, fetches)
       ELSE /\ pc' = [pc EXCEPT ![t] = "g_fetch"]
            /\ loc' = [loc EXCEPT ![t].cached = cached_content]
            /\ KeepChain(t)
            /\ Act("PageGet", t)
            /\ UNCHANGED finished
    /\ fetches' = fetches
    /\ ForgetReplay
    /\ UNCHANGED <<db, now, nextId, ops, epoch, started, storeOk, storeFail,
                   stored>>

\* get_page: the HTTP request, its failure caught
PageFetch(t, outcome) ==
    /\ pc[t] = "g_fetch"
    /\ pc' = [pc EXCEPT ![t] = "g_setex"]
    /\ loc' = [loc EXCEPT ![t].content = GetPageBody(outcome),
                          ![t].failed = (outcome = RequestException),
                          ![t].nfetch = @ + 1]
    /\ fetches' = [fetches EXCEPT ![loc[t].url] = @ + 1]
    /\ KeepChain(t)
    /\ Act("PageFetch", t)
    /\ ForgetReplay
    /\ UNCHANGED <<db, now, nextId, ops, epoch, started, finished,
                   storeOk, storeFail, stored>>

\* cache_result.wrapper: setex cache:<url> and return the content
PageSetex(t) ==
    /\ pc[t] = "g_setex"
    /\ LET url == loc[t].url
           content == loc[t].content IN
       /\ db' = RedisSetex(db, CacheKey(url), EXPIRATION, Encode(content), now)
       /\ Done("PageSetex", t,
               [NoRet EXCEPT !.op = "get_page", !.arg = url,
                             !.val = content, !.failed = loc[t].failed,
                             !.nfetch = loc[t].nfetch])
       /\ finished' = [finished EXCEPT ![CountKey(url)] = @ + 1]
       /\ fetches' = fetches
       /\ EndChain(t, url, content, db', fetches)
    /\ pc' = [pc EXCEPT ![t] = "idle"]
    /\ loc' = [loc EXCEPT ![t] = NoLoc]
    /\ ForgetReplay
    /\ UNCHANGED <<now, nextId, ops, epoch, started, storeOk, storeFail,
                   stored>>

(* ----------------------------- the clock ------------------------------ *)
Tick ==
    /\ now + ClockStep <= MaxTime
    /\ now' = now + ClockStep
    /\ Act("Tick", 0) /\ BreakChain
    /\ ForgetReplay
    /\ UNCHANGED <<db, pc, loc, nextId, ops, epoch, started, finished,
                   storeOk, storeFail, fetches, stored>>

\* keys tried for Cache.get: the keys issued so far and one never issued
GetKeys == {UUIDs[i] : i \in 1..(IF nextId < Len(UUIDs) THEN nextId ELSE Len(UUIDs))}

Calls ==
    \/ \E t \in Threads, data \in DataValues : StoreIncr(t, data)
    \/ \E t \in Threads : StoreRpushIn(t)
    \/ \E t \in Threads : StoreSet(t)
    \/ \E t \in Threads : StoreRpushOut(t)
    \/ \E t \in Threads, key \in GetKeys, fn \in Fns : CacheGet(t, key, fn)
    \/ \E t \in Threads : ReplayCount(t)
    \/ \E t \in Threads : ReplayInputs(t)
    \/ \E t \in Threads : ReplayOutputs(t)
    \/ \E t \in Threads, url \in URLs : PageIncr(t, url)
    \/ \E t \in Threads : PageGet(t)
    \/ \E t \in Threads, outcome \in Outcomes : PageFetch(t, outcome)
    \/ \E t \in Threads : PageSetex(t)
    \/ Tick

Next ==
    \/ Calls
    \/ \E t \in Threads : CacheInit(t)

Spec == Init /\ [][Next]_vars

\* the calls alone: no Cache is constructed after the initial one
SpecCalls == Init /\ [][Calls]_vars

TypeOK ==
    /\ now \in 0..MaxTime
    /\ ops \in 0..MaxOps
    /\ \A t \in Threads : pc[t] \in {"idle", "s_in", "s_set", "s_out", "r_in",
                                     "r_out", "g_get", "g_fetch", "g_setex"}

(* ======================== properties ================================== *)
Idle == \A t \in Threads : pc[t] = "idle"
StoreIdle == \A t \in Threads : pc[t] \notin {"s_in", "s_set", "s_out"}
NumInputs == Len(RedisLrange(db, InputKey, now))
NumOutputs == Len(RedisLrange(db, OutputKey, now))
StoreCount == CountOf(db, QUALNAME, now)
PageCount(url) == CountOf(db, CountKey(url), now)

\* thread t takes the cache_result.wrapper step that reads the cache
ReadsCache(t) == pc[t] = "g_get" /\ pc'[t] # "g_get"

(* C1: two get_page(url) calls made one after the other with no clock      *)
(* advance invoke the fetch once, return the same content and raise the    *)
(* count by 2; a call made while an unexpired entry exists returns the     *)
(* stored content without invoking the fetch.                              *)
C1_PairOk ==
    (chain.phase = 4 /\ chain.miss1) =>
        /\ chain.dfetch = 1
        /\ chain.val1 = chain.val2
        /\ chain.dcount = 2
C1_HitServed ==
    \A t \in Threads :
        (ReadsCache(t) /\ Live(db, CacheKey(loc[t].url), now)) =>
            /\ pc'[t] = "idle"
            /\ lastAct'.val = Decode(RedisGet(db, CacheKey(loc[t].url), now))
            /\ fetches' = fetches
C1_TwoCallsOneFetch == [][C1_PairOk' /\ C1_HitServed]_vars

(* C2: content stored by the cache wrapper at time s is returned by a      *)
(* get_page before s + ttl and is a Miss, with the fetch invoked again,    *)
(* from s + ttl on.                                                        *)
C2_TtlCorrectness ==
    [][\A t \in Threads :
         LET k == CacheKey(loc[t].url) IN
         (ReadsCache(t) /\ k \in DOMAIN db) =>
             LET storedAt == db[k].exp - EXPIRATION IN
             IF now - storedAt < EXPIRATION
             THEN lastAct'.op = "get_page" /\ lastAct'.hit
                  /\ lastAct'.val = PyStr(db[k].val)
             ELSE pc'[t] = "g_fetch"]_vars

(* C3: after N calls of one instrumented operation its counter reads N,    *)
(* whether the calls were hits, misses or failures.                        *)
C3_CountEqualsCalls ==
    /\ \A o \in OpNames : CountOf(db, o, now) = started[o]
    /\ Idle => \A o \in OpNames : CountOf(db, o, now) = finished[o]
C3_Witness ==
    /\ Idle /\ storeFail = 1 /\ StoreCount = 1
    /\ lastAct.op = "get_page" /\ lastAct.hit /\ PageCount(lastAct.arg) = 2

(* C4: once the Cache.store calls have completed, inputs holds one entry   *)
(* per call and outputs one entry per successful call: a failed call adds  *)
(* one input and no output.                                                *)
C4_HistoryLengths ==
    StoreIdle => /\ NumInputs = storeOk + storeFail
                 /\ NumOutputs = storeOk
C4_Witness ==
    StoreIdle /\ storeFail = 1 /\ storeOk >= 1 /\ NumInputs = NumOutputs + 1

(* C5: len(outputs) <= len(inputs) <= callCount in every state, under any  *)
(* interleaving of store calls and Cache constructions; the two logs are   *)
(* equally long when no call is in flight and none has failed.             *)
C5_LogLengthInvariant ==
    /\ NumOutputs <= NumInputs
    /\ NumInputs <= StoreCount
    /\ (StoreIdle /\ storeFail = 0) => NumInputs = NumOutputs

(* C6: when the fetch of get_page fails, the failure reaches the caller,   *)
(* the cache entry of the URL is left as it was, and the fetch is not      *)
(* retried inside the call.                                                *)
C6_FailurePropagates ==
    [][(lastAct'.op = "get_page" /\ lastAct'.failed) =>
          LET k == CacheKey(lastAct'.arg) IN
          /\ lastAct'.exc # ""
          /\ Live(db', k, now) = Live(db, k, now)
          /\ Live(db, k, now) => db'[k] = db[k]
          /\ lastAct'.nfetch = 1]_vars

(* C6 as amended: when the fetch fails, get_page returns the empty string  *)
(* and raises nothing, the wrapper stores the empty string under           *)
(* cache:<url> with the 10 second TTL, and the fetch was invoked once.     *)
C6_FailureReturnsEmpty ==
    (lastAct.op = "get_page" /\ lastAct.failed) =>
        LET k == CacheKey(lastAct.arg) IN
        /\ lastAct.exc = ""
        /\ lastAct.val = PyStr(<<>>)
        /\ k \in DOMAIN db
        /\ db[k] = [kind |-> "string", val |-> <<>>, exp |-> now + EXPIRATION]
        /\ lastAct.nfetch = 1
C6_Witness ==
    /\ lastAct.op = "get_page" /\ lastAct.failed
    /\ fetches[lastAct.arg] >= 2

(* C7: a stored empty value is not a Miss: Cache.get returns it, with fn   *)
(* applied, and the get_page wrapper serves it without invoking the fetch. *)
C7_EmptyIsNotMiss ==
    [][/\ \A t \in Threads :
            LET k == CacheKey(loc[t].url) IN
            (ReadsCache(t) /\ Live(db, k, now) /\ db[k].val = <<>>) =>
                /\ pc'[t] = "idle"
                /\ lastAct'.hit
                /\ lastAct'.val = PyStr(<<>>)
                /\ fetches' = fetches
       /\ (lastAct'.name = "CacheGet" /\ Live(db, lastAct'.arg, now)
             /\ db[lastAct'.arg].val = <<>>) =>
                /\ lastAct'.fn = "None" => lastAct'.val = PyBytes(<<>>)
                /\ lastAct'.fn = "decode" => lastAct'.val = PyStr(<<>>)
                /\ lastAct'.fn = "int" => lastAct'.exc = "ValueError"]_vars

\* the conversion that gives back a value of the type of data
FnFor(data) == CASE data.t = "str" -> "decode"
                 [] data.t = "int" -> "int"
                 [] OTHER -> "None"

\* Cache.get(k) gives back data: its bytes as stored, and data itself
\* under the conversion of its type
RoundTrip(k, data) ==
    /\ Get(db, k, "None", now) = [val |-> PyBytes(Encode(data)), exc |-> ""]
    /\ Get(db, k, FnFor(data), now) = [val |-> data, exc |-> ""]

(* C8: a key returned by Cache.store reads back the stored data at every   *)
(* later time, whatever operations follow, the construction of another     *)
(* Cache among them.                                                       *)
C8_RoundTripAlways ==
    \A k \in DOMAIN stored : stored[k].returned => RoundTrip(k, stored[k].data)

(* C8 as amended: the key reads back the stored data at every later time,  *)
(* after any operations, as long as no Cache has been constructed since    *)
(* the store call wrote the key.                                           *)
C8_RoundTripNoFlush ==
    \A k \in DOMAIN stored :
        (stored[k].returned /\ stored[k].epoch = epoch) =>
            RoundTrip(k, stored[k].data)
C8_Witness ==
    /\ \E k \in DOMAIN stored :
          stored[k].returned /\ stored[k].epoch = epoch /\ stored[k].data = PyStr(<<>>)
    /\ now > 0
    /\ \E u \in URLs : CacheKey(u) \in DOMAIN db

\* the keys that hold access records; every other key is a cache entry
AccessKeys == {QUALNAME, InputKey, OutputKey} \cup {CountKey(u) : u \in URLs}

\* the entries of d that exist at time tm, within or outside the set keys
Entries(d, tm, keys, within) ==
    LET ks == {k \in DOMAIN d : Live(d, k, tm) /\ ((k \in keys) = within)} IN
    [k \in ks |-> d[k]]

CacheEntriesChanged ==
    Entries(db', now', AccessKeys, FALSE) # Entries(db, now', AccessKeys, FALSE)
AccessRecordsChanged ==
    Entries(db', now', AccessKeys, TRUE) # Entries(db, now', AccessKeys, TRUE)

CacheWriters == {"StoreSet", "PageSetex"}
AccessWriters == {"StoreIncr", "StoreRpushIn", "StoreRpushOut", "PageIncr"}

(* C9: cache entries are changed only by the cache write paths and access  *)
(* records only by the counting and history decorators; every other        *)
(* operation leaves them unchanged.                                        *)
C9_SingleWriter ==
    [][/\ CacheEntriesChanged => lastAct'.name \in CacheWriters
       /\ AccessRecordsChanged => lastAct'.name \in AccessWriters]_vars

(* C9 as amended: the same, except that constructing a Cache flushes the   *)
(* whole store, cache entries and access records alike.                    *)
C9_SingleWriterOrFlush ==
    [][/\ CacheEntriesChanged => lastAct'.name \in CacheWriters \cup {"CacheInit"}
       /\ AccessRecordsChanged => lastAct'.name \in AccessWriters \cup {"CacheInit"}]_vars
C9_Witness ==
    /\ lastAct.name = "CacheInit" /\ epoch = 1
    /\ started[QUALNAME] > 0 /\ \E k \in DOMAIN stored : stored[k].returned
    /\ db = FlushDb

(* C10: replay pairs inputs and outputs by position, emits                 *)
(* min(len(inputs), len(outputs)) pairs in log order, and does not fail    *)
(* when the logs differ in length.                                         *)
C10_ReplayPairs ==
    lastAct.op = "replay" =>
        LET n == IF Len(lastAct.ins) < Len(lastAct.outs)
                 THEN Len(lastAct.ins) ELSE Len(lastAct.outs) IN
        /\ lastAct.exc = ""
        /\ Len(lastAct.lines) = n
        /\ \A i \in 1..n :
              lastAct.lines[i] = <<PyStr(lastAct.ins[i]), PyStr(lastAct.outs[i])>>
C10_Witness ==
    /\ lastAct.op = "replay"
    /\ Len(lastAct.ins) > Len(lastAct.outs)
    /\ Len(lastAct.lines) >= 1

\* the invocation that wrote key k appended input inp and output out
SameInvocation(k, inp, out) ==
    /\ out = Encode(PyStr(KeyText(k)))
    /\ inp = StrArgs(stored[k].data).v

(* C11: the logs are parallel: for every index below both lengths, the     *)
(* output at that index is the key returned by the store invocation that   *)
(* appended the input at that index, under any interleaving of store calls *)
(* and after any failed call.                                              *)
C11_LogsParallel ==
    LET ins == RedisLrange(db, InputKey, now)
        outs == RedisLrange(db, OutputKey, now)
        n == IF Len(ins) < Len(outs) THEN Len(ins) ELSE Len(outs) IN
    \A i \in 1..n : \E k \in DOMAIN stored : SameInvocation(k, ins[i], outs[i])

\* the threads inside a Cache.store call, and inside a get_page(url) call
InFlightStore == {t \in Threads : pc[t] \in {"s_in", "s_set", "s_out"}}
InFlightPage(url) ==
    {t \in Threads : pc[t] \in {"g_get", "g_fetch", "g_setex"} /\ loc[t].url = url}

(* C12: no increment is lost when callers run concurrently: every call     *)
(* that has begun, ended or still in flight, has raised the counter of its *)
(* operation by one, so K concurrent calls raise it by K.                  *)
C12_NoLostIncrement ==
    /\ StoreCount = finished[QUALNAME] + Cardinality(InFlightStore)
    /\ \A u \in URLs :
          PageCount(u) = finished[CountKey(u)] + Cardinality(InFlightPage(u))
C12_Witness ==
    \/ \E u \in URLs : Cardinality(InFlightPage(u)) = 2 /\ PageCount(u) = 3
    \/ Cardinality(InFlightStore) = 2 /\ StoreCount = 3

\* the data keys present in the database
DataKeys == {k \in DOMAIN db : \E i \in 1..Len(UUIDs) : UUIDs[i] = k}

(* C13: the effects of one call come in a fixed order.  In Cache.store the *)
(* counter is incremented before the input is appended, the input is       *)
(* appended before the write, and the output is appended after the write.  *)
(* In get_page the counter is incremented before the cache is checked, and *)
(* the fetch is invoked only after a miss: the key was absent or expired.  *)
C13_EffectOrder ==
    /\ StoreCount = finished[QUALNAME]
                    + Cardinality({t \in Threads : pc[t] \in {"s_in", "s_set", "s_out"}})
    /\ NumInputs = finished[QUALNAME]
                   + Cardinality({t \in Threads : pc[t] \in {"s_set", "s_out"}})
    /\ Cardinality(DataKeys) = storeOk
                   + Cardinality({t \in Threads : pc[t] = "s_out"})
    /\ NumOutputs = storeOk
    /\ \A t \in Threads :
          pc[t] \in {"g_get", "g_fetch", "g_setex"} =>
              /\ PageCount(loc[t].url) >= 1
              /\ loc[t].nfetch = (IF pc[t] = "g_setex" THEN 1 ELSE 0)
              /\ pc[t] # "g_get" => loc[t].cached = None
    /\ lastAct.hit => lastAct.nfetch = 0

\* the times the wrapper has written cache:<url>
Fills(url) ==
    fetches[url] - Cardinality({t \in Threads : pc[t] = "g_setex" /\ loc[t].url = url})

(* C14: a later write replaces the earlier one: when cache:<url> has been  *)
(* filled twice (a refill after expiry, or two concurrent misses), the     *)
(* entry is the content of the last write with the TTL counted from that   *)
(* write, and a get_page within that TTL returns it.                       *)
C14_LastWriteWins ==
    [][/\ lastAct'.name = "PageSetex" =>
             /\ CacheKey(lastAct'.arg) \in DOMAIN db'
             /\ db'[CacheKey(lastAct'.arg)] =
                   [kind |-> "string", val |-> Encode(lastAct'.val),
                    exp |-> now + EXPIRATION]
       /\ lastAct'.name # "PageSetex" =>
             \A u \in URLs : CacheKey(u) \in DOMAIN db =>
                 CacheKey(u) \in DOMAIN db' /\ db'[CacheKey(u)] = db[CacheKey(u)]
       /\ \A t \in Threads :
             LET k == CacheKey(loc[t].url) IN
             (ReadsCache(t) /\ Fills(loc[t].url) >= 2 /\ k \in DOMAIN db
                /\ now < db[k].exp) =>
                 /\ lastAct'.hit
                 /\ lastAct'.val = PyStr(db[k].val)
                 /\ fetches' = fetches]_vars

ReplaySteps == {"ReplayCount", "ReplayInputs", "ReplayOutputs"}

(* C15: replay is a read-only, restartable view: it leaves the counter,    *)
(* the logs and every stored entry unchanged, and two replay calls with no *)
(* operation in between report the same count and the same pairs.          *)
C15_ReplayReadOnly ==
    [][/\ lastAct'.name \in ReplaySteps => db' = db
       /\ replayed'.again =>
             /\ replayed'.count = replayed.count
             /\ replayed'.lines = replayed.lines]_vars
C15_Witness ==
    /\ replayed.again /\ lastAct.name = "ReplayOutputs"
    /\ replayed.count >= 1 /\ Len(replayed.lines) >= 1

(* C16: constructing a Cache clears the shared store: right afterwards the *)
(* Cache.store count reads 0, both logs are empty, every key an earlier    *)
(* store returned is a Miss, and count:<url> and cache:<url> are gone.     *)
C16_ConstructClears ==
    lastAct.name = "CacheInit" =>
        /\ StoreCount = 0
        /\ NumInputs = 0
        /\ NumOutputs = 0
        /\ \A k \in DOMAIN stored : Get(db, k, "None", now).val = None
        /\ \A u \in URLs : /\ RedisGet(db, CountKey(u), now) = None
                           /\ RedisGet(db, CacheKey(u), now) = None
C16_Witness ==
    /\ lastAct.name = "CacheInit" /\ epoch = 1
    /\ \E k \in DOMAIN stored : stored[k].returned
    /\ \E u \in URLs : fetches[u] >= 1 /\ finished[CountKey(u)] >= 1

PageSteps == {"PageIncr", "PageGet", "PageFetch", "PageSetex"}

\* the two keys get_page(url) may write
OwnKeys(url) == {"count:" \o url, "cache:" \o url}

(* C17: per-URL isolation: a get_page(u) call changes at most count:u and  *)
(* cache:u; the entries of every other URL, value and TTL, the counter of  *)
(* Cache.store, its logs and the stored data are unchanged.                *)
C17_UrlIsolation ==
    [][lastAct'.name \in PageSteps =>
          LET t == lastAct'.t
              u == IF lastAct'.name = "PageIncr" THEN loc'[t].url ELSE loc[t].url IN
          \A k \in (DOMAIN db \cup DOMAIN db') \ OwnKeys(u) :
              k \in DOMAIN db /\ k \in DOMAIN db' /\ db'[k] = db[k]]_vars
C17_Witness ==
    /\ lastAct.name = "PageSetex" /\ lastAct.arg = "u1"
    /\ {"count:u2", "cache:u2", QUALNAME, InputKey} \subseteq DOMAIN db
====
